---- MODULE Spec2Model ----
(***************************************************************************)
(* Model of the micro entity-component-system of src/ecs.hpp: the          *)
(* per-entity component map (Entity) and the requirement-gated dispatch    *)
(* (System).                                                               *)
(***************************************************************************)
EXTENDS Integers, Sequences, FiniteSets, TLC

\* ------------------------------------------------------------- bounds
NumEntities == 2       \* entities in the caller's std::vector<Entity>
MaxObjs == 2           \* component instances operator new allocates in one run
NumCopies == 2         \* std::type_info objects of a type defined in several shared objects
MaxNonNewInserts == 1  \* insert<T>(p) calls in one run with p null or a pointer obtained earlier
MaxVal == 0            \* payloads given to constructors are integers 0..MaxVal
ValMod == 2            \* logic() advances payloads modulo ValMod

\* ------------------------------------------------- the type universe
\* Component subclasses defined by the application.  Z is a subclass of X,
\* so an X* may point to a Z object.
Types == {"X", "Y", "Z"}

IsA(d, b) == d = b \/ (d = "Z" /\ b = "X")

\* Real (dynamic) types of the objects a T* can point to.
PointeeTypes(T) == {d \in Types : IsA(d, T)}

\* std::type_info::hash_code: equal for equal types, and allowed to collide
\* for different ones.
hash_code(t) == IF t = "Y" THEN 2 ELSE 1

\* const std::type_info*: the null pointer, or the address of one of the
\* type_info objects of a type.
NullTi == [type |-> "null", copy |-> 0]

\* The type_info objects of a type that the calls of the program name: X is
\* defined in NumCopies shared objects, Y and Z in one.
Copies(t) == IF t = "X" THEN 1..NumCopies ELSE {1}

TypeInfoPtrs == {[type |-> t, copy |-> c] : t \in Types, c \in 1..NumCopies}
AnyTypeInfoPtr == TypeInfoPtrs \cup {NullTi}

\* Component*: 0 is the null pointer, 1..MaxObjs are the addresses operator
\* new hands out.
Null == 0
Addrs == 1..MaxObjs

Entities == 1..NumEntities

\* Template argument lists an application writes for System<Components...>:
\* System<>, System<X>, System<X, Y>, System<X, Y, Z>.
SystemParams == {<< >>, <<"X">>, <<"X", "Y">>, <<"X", "Y", "Z">>}

\* The template arguments boost::mpl::and_ receives from the pack expansion
\* std::is_base_of<Component, Components>...: and_ has five parameters, the
\* first two defaulting to the placeholder na and the last three to true_.
MplAndArgs(params) ==
    [i \in 1..5 |-> IF i <= Len(params) THEN params[i]
                    ELSE IF i <= 2 THEN "na" ELSE "true_"]

\* ::value of one argument of and_: std::is_base_of<Component, T> is true for
\* the component types, na::value is 0, true_::value is 1.
MplValue(arg) == arg \in Types \/ arg = "true_"

\* is_base_of_all<Component, Components...>: ill-formed with more arguments
\* than and_ has parameters and with none (and_<na, na> is the placeholder
\* specialization, which has no nested ::type); otherwise the conjunction of
\* the five arguments' values.
is_base_of_all(params) ==
    IF Len(params) > 5 \/ Len(params) = 0 THEN "ill-formed"
    ELSE IF \A i \in 1..5 : MplValue(MplAndArgs(params)[i]) THEN "true" ELSE "false"

\* The instantiations of System that compile: the static_assert on
\* is_base_of_all<Component, Components...>::value passes.
Systems == {params \in SystemParams : is_base_of_all(params) = "true"}

\* The instantiation of the program's system object.
SystemOfProgram == <<"X", "Y">>

\* ------------------------------------------------------------- state
VARIABLES
    componentMap,   \* per entity: the set of nodes of Entity::componentMap
    heap,           \* per address: the object there (real type, payload, lifetime state)
    allocs,         \* operator new calls made so far
    known,          \* per address: real types of the objects created there so far,
                    \* the types of the pointers to it the caller has obtained
    nonNewInserts,  \* insert<T>(p) calls made so far with p null or obtained earlier
    inserted,       \* history: per entity and type, an insertion since the last erase
    lastOp,         \* history: the last completed call and what it observed
    pc,             \* "idle", or "loop" inside process(std::vector<Entity>&)
    sys,            \* the program's system object: its template arguments (params)
                    \* and its member componentTypes (types)
    loopIdx,        \* position of the range-for in the vector
    visited         \* history: entities the loop has passed, with logic() call counts

vars == <<componentMap, heap, allocs, known, nonNewInserts, inserted, sys, lastOp, pc, loopIdx, visited>>

\* ----------------------------------------------------- Entity, hashing
\* Entity::componentMap is modelled by its set of nodes [key, ptr, del]: the
\* key, the owned pointer and the type its deleter is bound to.  The
\* container fixes no iteration order, so none is modelled.

HashTypeInfoReferents(ti) == IF ti = NullTi THEN 0 ELSE hash_code(ti.type)

\* Mutant: compares the pointers only.
EqualReferentsPtrOnly(lhs, rhs) == lhs = rhs

\* Entity::EqualReferents: the same pointer, or two non-null pointers to
\* type_info objects that compare equal.
EqualReferents(lhs, rhs) ==
    lhs = rhs \/ (lhs # NullTi /\ rhs # NullTi /\ lhs.type = rhs.type)

\* unordered_map::find: the nodes whose key has the same hash and compares
\* equal; the empty set stands for end().
Find(m, ti) ==
    {n \in m : HashTypeInfoReferents(n.key) = HashTypeInfoReferents(ti)
               /\ EqualReferents(n.key, ti)}

\* The node an iterator returned by find() points to.
Deref(found) == CHOOSE n \in found : TRUE

\* &typeid(T), evaluated in shared object c.
TypeId(T, c) == [type |-> T, copy |-> c]

\* Entity::get(const std::type_info*)
Get(m, ti) == IF Find(m, ti) = {} THEN Null ELSE Deref(Find(m, ti)).ptr

\* Entity::get<T>(): the static_cast keeps the address.
GetT(m, T, c) == Get(m, TypeId(T, c))

\* Entity::contains(const std::type_info*)
Contains(m, ti) == Find(m, ti) # {}

\* Entity::contains<T>()
ContainsT(m, T, c) == Contains(m, TypeId(T, c))

\* MakeComponentPtr<T>: the owning pointer with the deleter bound to T.
MakeComponentPtr(T, ptr) == [ptr |-> ptr, del |-> T]

\* unordered_map::emplace: a node is added only when no equal key is present.
UnorderedEmplace(m, ti, cp) ==
    IF Find(m, ti) # {}
    THEN m
    ELSE m \cup {[key |-> ti, ptr |-> cp.ptr, del |-> cp.del]}

\* unordered_map::erase(key)
UnorderedErase(m, ti) == m \ Find(m, ti)

\* What `delete static_cast<T*>(p)` makes of the object obj now at address
\* p.  A live object is destroyed when T is its real type.  Through a base T
\* the result depends on T's destructor: a virtual one destroys the object,
\* a non-virtual one is undefined behaviour, in practice running ~T only and
\* leaving the derived part undestroyed.  A live object of an unrelated type
\* is there when the storage of the object p pointed to has been handed out
\* again; deleting it, and deleting an object that is no longer live, is
\* undefined behaviour: ~T runs on whatever is there and the storage is freed,
\* or the heap is corrupted and the program aborts.
DeleteOutcomes(obj, T) ==
    IF obj.st # "live" THEN {obj.st, "corrupt"}
    ELSE IF obj.rtype = T THEN {"destroyed"}
    ELSE IF IsA(obj.rtype, T) THEN {"destroyed", "sliced"}
    ELSE {"destroyed", "sliced", "corrupt"}

\* ~unique_ptr of an owning pointer: the deleter runs on the object at the
\* address unless the pointer is null.  Of an object that is gone only its
\* fate is kept.
Destroy(h, cp, outcome) ==
    IF cp.ptr = Null THEN h
    ELSE [h EXCEPT ![cp.ptr] = [rtype |-> "none", val |-> 0, st |-> outcome]]

\* The ways the owning pointer cp can end when it is destroyed on heap h.
DestroyOutcomes(h, cp) ==
    IF cp.ptr = Null THEN {"none"} ELSE DeleteOutcomes(h[cp.ptr], cp.del)

\* ~unordered_map: the heaps that can result from destroying the owning
\* pointers of the nodes, in any order.
RECURSIVE DestroyAll(_, _)
DestroyAll(h, nodes) ==
    IF nodes = {} THEN {h}
    ELSE UNION {UNION {DestroyAll(Destroy(h, n, o), nodes \ {n}) : o \in DestroyOutcomes(h, n)}
                  : n \in nodes}

\* operator new: the addresses it can return, storage never used so far
\* (the lowest such address) or storage that has been freed.
NewAddrs(h) ==
    {a \in Addrs : h[a].st \in {"destroyed", "sliced"}}
    \cup {a \in Addrs : h[a].st = "free" /\ \A b \in 1..(a - 1) : h[b].st # "free"}

\* Entity::RemoveUnique: the (type identity, component handle) pair of a node.
RemoveUnique(node) == <<node.key, node.ptr>>

\* The traversal begin()..end(): the pair RemoveUnique yields at each node.
Traverse(m) == [n \in m |-> RemoveUnique(n)]

\* ------------------------------------------------------------- System
\* The program has one system object, a System<X, Y>; the filter of longer
\* and shorter lists runs when such a list is written to its componentTypes.

\* System(): componentTypes {&typeid(Components)...}; the systems are
\* instantiated in the first shared object.
componentTypes(params) == [i \in 1..Len(params) |-> TypeId(params[i], 1)]

\* std::all_of over componentTypes with the predicate e.contains(type):
\* stops at the first type the entity does not contain.
RECURSIVE AllOfFrom(_, _, _)
AllOfFrom(types, m, i) ==
    IF i > Len(types) THEN TRUE
    ELSE IF ~Contains(m, types[i]) THEN FALSE
         ELSE AllOfFrom(types, m, i + 1)

\* System::logic of the concrete systems used here, as the movement system
\* of the spec: it fetches e.get<T>() for each template argument T, reads the
\* components and, unless the first handle is null, advances the payload of
\* the first.  The heaps that can result: a live object is written; a write
\* through a dangling handle is undefined behaviour, it goes unnoticed or
\* corrupts the heap.
Logic(params, m, h) ==
    LET a == GetT(m, params[1], 1)
    IN IF a = Null THEN {h}
       ELSE IF h[a].st = "live" THEN {[h EXCEPT ![a].val = (@ + 1) % ValMod]}
       ELSE {h, [h EXCEPT ![a].st = "corrupt"]}

\* System::process(Entity&) of a system with template arguments params whose
\* member componentTypes holds types: the number of logic() calls made and
\* the heaps that can result.
ProcessEntity(types, params, m, h) ==
    IF AllOfFrom(types, m, 1)
    THEN [calls |-> 1, heaps |-> Logic(params, m, h)]
    ELSE [calls |-> 0, heaps |-> {h}]

\* ------------------------------------------------------------ actions
\* The lists a caller writes to the public member componentTypes, a
\* std::vector<const std::type_info*> that takes any pointers in any order:
\* the empty list, a part of the template arguments, the arguments reordered
\* and named through other type_info objects, a null entry, a type that is
\* no template argument, and a longer list.
WrittenLists ==
    {<< >>,
     <<TypeId("X", 1)>>,
     <<TypeId("Y", NumCopies), TypeId("X", NumCopies)>>,
     <<NullTi>>,
     <<TypeId("Z", 1)>>,
     <<TypeId("X", 1), TypeId("Y", 1), TypeId("Z", 1)>>}

NoObj == [rtype |-> "none", val |-> 0, st |-> "free"]

\* The record of a completed call: the operation, the entity, the type named,
\* the pointer handed in and whether the key was present before the call
\* (emplace, insert, erase), the number of logic() calls made (process); the
\* calls that report nothing are recorded as "other".
Op(op, e, T, arg, hit, calls) ==
    [op |-> op, ent |-> e, type |-> T, arg |-> arg, hit |-> hit, calls |-> calls]

\* Payloads given to constructors.
Vals == 0..MaxVal

\* The pointers a caller can pass to insert<T>(T*): null, a new object of
\* type T or of a subclass of T, or a pointer obtained earlier (from new or
\* from get) to an object of such a type, whatever has become of the object.
InsertArgs(kn, T) ==
    {[kind |-> "null", rtype |-> "none", val |-> 0, ptr |-> Null]}
    \cup {[kind |-> "new", rtype |-> rt, val |-> v, ptr |-> Null] :
             rt \in PointeeTypes(T), v \in Vals}
    \cup {[kind |-> "old", rtype |-> "none", val |-> 0, ptr |-> a] :
             a \in {a \in Addrs : \E rt \in kn[a] : IsA(rt, T)}}

Init ==
    /\ componentMap = [e \in Entities |-> {}]
    /\ heap = [a \in Addrs |-> NoObj]
    /\ allocs = 0
    /\ known = [a \in Addrs |-> {}]
    /\ nonNewInserts = 0
    /\ inserted = [e \in Entities |-> [T \in Types |-> FALSE]]
    /\ \E params \in Systems \cap {SystemOfProgram} : sys = [params |-> params, types |-> componentTypes(params)]
    /\ lastOp = Op("none", 0, "none", Null, FALSE, 0)
    /\ pc = "idle"
    /\ loopIdx = 0
    /\ visited = << >>

\* Entity::emplace<T>(args...): new T(args...), then the map's emplace; the
\* local owning pointer destroys the new object when the key was present.
Emplace(e, T, v, c) ==
    /\ pc = "idle"
    /\ allocs < MaxObjs
    /\ \E a \in NewAddrs(heap) :
          LET m == componentMap[e]
              ti == TypeId(T, c)
              component == MakeComponentPtr(T, a)
              h1 == [heap EXCEPT ![a] = [rtype |-> T, val |-> v, st |-> "live"]]
          IN /\ componentMap' = [componentMap EXCEPT ![e] = UnorderedEmplace(m, ti, component)]
             /\ \E outcome \in DestroyOutcomes(h1, component) :
                   heap' = IF Contains(m, ti) THEN Destroy(h1, component, outcome) ELSE h1
             /\ known' = [known EXCEPT ![a] = @ \cup {T}]
             /\ lastOp' = Op("emplace", e, T, a, Contains(m, ti), 0)
    /\ allocs' = allocs + 1
    /\ inserted' = [inserted EXCEPT ![e][T] = TRUE]
    /\ visited' = << >>
    /\ UNCHANGED <<nonNewInserts, sys, pc, loopIdx>>

\* Entity::insert<T>(T* c): the map's emplace of MakeComponentPtr(c); the
\* temporary owning pointer destroys *c when the key was present.  For a new
\* object the caller's new-expression is part of the step.
Insert(e, T, arg, c) ==
    /\ pc = "idle"
    /\ IF arg.kind = "new" THEN allocs < MaxObjs ELSE nonNewInserts < MaxNonNewInserts
    /\ \E ptr \in (IF arg.kind = "new" THEN NewAddrs(heap) ELSE {arg.ptr}) :
          LET m == componentMap[e]
              ti == TypeId(T, c)
              component == MakeComponentPtr(T, ptr)
              h1 == IF arg.kind = "new"
                    THEN [heap EXCEPT ![ptr] = [rtype |-> arg.rtype, val |-> arg.val, st |-> "live"]]
                    ELSE heap
          IN /\ componentMap' = [componentMap EXCEPT ![e] = UnorderedEmplace(m, ti, component)]
             /\ \E outcome \in DestroyOutcomes(h1, component) :
                   heap' = IF Contains(m, ti) THEN Destroy(h1, component, outcome) ELSE h1
             /\ known' = IF arg.kind = "new" THEN [known EXCEPT ![ptr] = @ \cup {arg.rtype}] ELSE known
             /\ lastOp' = Op("insert", e, T, ptr, Contains(m, ti), 0)
    /\ allocs' = IF arg.kind = "new" THEN allocs + 1 ELSE allocs
    /\ nonNewInserts' = IF arg.kind = "new" THEN nonNewInserts ELSE nonNewInserts + 1
    /\ inserted' = [inserted EXCEPT ![e][T] = TRUE]
    /\ visited' = << >>
    /\ UNCHANGED <<sys, pc, loopIdx>>

\* Entity::erase(const std::type_info*): the map's erase; the erased node's
\* owning pointer destroys its object.
Erase(e, ti) ==
    /\ pc = "idle"
    /\ LET m == componentMap[e]
       IN /\ componentMap' = [componentMap EXCEPT ![e] = UnorderedErase(m, ti)]
          /\ heap' \in DestroyAll(heap, Find(m, ti))
          /\ lastOp' = Op("erase", e, ti.type, Null, Contains(m, ti), 0)
    /\ inserted' = IF ti = NullTi THEN inserted ELSE [inserted EXCEPT ![e][ti.type] = FALSE]
    /\ visited' = << >>
    /\ UNCHANGED <<allocs, known, nonNewInserts, sys, pc, loopIdx>>

\* Entity::erase<T>(): erase(&typeid(T)).  A direct call of erase with a
\* non-null identity is this same step; Next adds the direct call with null.
EraseT(e, T, c) == Erase(e, TypeId(T, c))

\* Entity::~Entity() (implicit): componentMap is destroyed with every owning
\* pointer in it.  The vector keeps its length: slot e then holds a newly
\* constructed Entity, whose map is empty.
DestroyEntity(e) ==
    /\ pc = "idle"
    /\ componentMap[e] # {}
    /\ componentMap' = [componentMap EXCEPT ![e] = {}]
    /\ heap' \in DestroyAll(heap, componentMap[e])
    /\ inserted' = [inserted EXCEPT ![e] = [T \in Types |-> FALSE]]
    /\ lastOp' = Op("other", 0, "none", Null, FALSE, 0)
    /\ visited' = << >>
    /\ UNCHANGED <<allocs, known, nonNewInserts, sys, pc, loopIdx>>

\* Entity::operator=(Entity&&) (implicit), b = std::move(c): the map's move
\* assignment destroys b's nodes and takes c's, leaving c empty.
MoveAssign(b, c) ==
    /\ pc = "idle"
    /\ b # c
    /\ componentMap[b] # {}
    /\ componentMap' = [componentMap EXCEPT ![b] = componentMap[c], ![c] = {}]
    /\ heap' \in DestroyAll(heap, componentMap[b])
    /\ inserted' = [inserted EXCEPT ![b] = inserted[c], ![c] = [T \in Types |-> FALSE]]
    /\ lastOp' = Op("other", 0, "none", Null, FALSE, 0)
    /\ visited' = << >>
    /\ UNCHANGED <<allocs, known, nonNewInserts, sys, pc, loopIdx>>

\* Entity::Entity(Entity&&) (implicit), Entity d(std::move(b)): the new
\* entity takes b's nodes, leaving b empty.  The new entity is constructed in
\* slot d of the vector, which holds no components.
MoveConstruct(d, b) ==
    /\ pc = "idle"
    /\ d # b
    /\ componentMap[d] = {}
    /\ componentMap[b] # {}
    /\ componentMap' = [componentMap EXCEPT ![d] = componentMap[b], ![b] = {}]
    /\ inserted' = [inserted EXCEPT ![d] = inserted[b], ![b] = [T \in Types |-> FALSE]]
    /\ lastOp' = Op("other", 0, "none", Null, FALSE, 0)
    /\ visited' = << >>
    /\ UNCHANGED <<heap, allocs, known, nonNewInserts, sys, pc, loopIdx>>

\* System::System(System&&) and System::operator=(System&&) (implicit) with
\* the system as the source of the move: its componentTypes is left empty.
MoveFromSystem ==
    /\ pc = "idle"
    /\ sys.types # << >>
    /\ sys' = [sys EXCEPT !.types = << >>]
    /\ lastOp' = Op("other", 0, "none", Null, FALSE, 0)
    /\ visited' = << >>
    /\ UNCHANGED <<componentMap, heap, allocs, known, nonNewInserts, inserted, pc, loopIdx>>

\* System::operator=(System&&) (implicit) with the system as the target and
\* a newly constructed system of its type as the source: it takes that
\* system's componentTypes.
MoveToSystem ==
    /\ pc = "idle"
    /\ sys.types # componentTypes(sys.params)
    /\ sys' = [sys EXCEPT !.types = componentTypes(sys.params)]
    /\ lastOp' = Op("other", 0, "none", Null, FALSE, 0)
    /\ visited' = << >>
    /\ UNCHANGED <<componentMap, heap, allocs, known, nonNewInserts, inserted, pc, loopIdx>>

\* A write to the public member componentTypes of the system.
WriteComponentTypes(types) ==
    /\ pc = "idle"
    /\ sys.types # types
    /\ sys' = [sys EXCEPT !.types = types]
    /\ lastOp' = Op("other", 0, "none", Null, FALSE, 0)
    /\ visited' = << >>
    /\ UNCHANGED <<componentMap, heap, allocs, known, nonNewInserts, inserted, pc, loopIdx>>

\* System::process(Entity&) called on entity e.
Process(e) ==
    /\ pc = "idle"
    /\ LET r == ProcessEntity(sys.types, sys.params, componentMap[e], heap)
       IN /\ heap' \in r.heaps
          /\ lastOp' = Op("process", e, "none", Null, FALSE, r.calls)
    /\ visited' = << >>
    /\ UNCHANGED <<componentMap, allocs, known, nonNewInserts, inserted, sys, pc, loopIdx>>

\* System::process(std::vector<Entity>&): entry, the range-for starts at begin().
ProcessSeqStart ==
    /\ pc = "idle"
    /\ pc' = "loop"
    /\ loopIdx' = 1
    /\ visited' = << >>
    /\ lastOp' = Op("processSeq", 0, "none", Null, FALSE, 0)
    /\ UNCHANGED <<componentMap, heap, allocs, known, nonNewInserts, inserted, sys>>

\* Mutant: the loop breaks at the first entity that fails the filter.
ProcessSeqStepBreak ==
    /\ pc = "loop"
    /\ loopIdx <= NumEntities
    /\ LET r == ProcessEntity(sys.types, sys.params, componentMap[loopIdx], heap)
       IN /\ heap' \in r.heaps
          /\ visited' = Append(visited, [ent |-> loopIdx, calls |-> r.calls])
          /\ lastOp' = Op("process", loopIdx, "none", Null, FALSE, r.calls)
          /\ loopIdx' = IF r.calls = 0 THEN NumEntities + 1 ELSE loopIdx + 1
    /\ UNCHANGED <<componentMap, allocs, known, nonNewInserts, inserted, sys, pc>>

\* One iteration of the range-for: process(e) on the entity at loopIdx.
ProcessSeqStep ==
    /\ pc = "loop"
    /\ loopIdx <= NumEntities
    /\ LET r == ProcessEntity(sys.types, sys.params, componentMap[loopIdx], heap)
       IN /\ heap' \in r.heaps
          /\ visited' = Append(visited, [ent |-> loopIdx, calls |-> r.calls])
          /\ lastOp' = Op("process", loopIdx, "none", Null, FALSE, r.calls)
    /\ loopIdx' = loopIdx + 1
    /\ UNCHANGED <<componentMap, allocs, known, nonNewInserts, inserted, sys, pc>>

\* The range-for reaches end(): process(std::vector<Entity>&) returns.
ProcessSeqEnd ==
    /\ pc = "loop"
    /\ loopIdx > NumEntities
    /\ pc' = "idle"
    /\ loopIdx' = 0
    /\ visited' = << >>
    /\ lastOp' = Op("other", 0, "none", Null, FALSE, 0)
    /\ UNCHANGED <<componentMap, heap, allocs, known, nonNewInserts, inserted, sys>>

Next ==
    \/ \E e \in Entities, T \in Types, v \in Vals : \E c \in Copies(T) : Emplace(e, T, v, c)
    \/ \E e \in Entities, T \in Types : \E c \in Copies(T) :
          \E arg \in InsertArgs(known, T) : Insert(e, T, arg, c)
    \/ \E e \in Entities : Erase(e, NullTi)
    \/ \E e \in Entities, T \in Types : \E c \in Copies(T) : EraseT(e, T, c)
    \/ \E e \in Entities : DestroyEntity(e)
    \/ \E b \in Entities, c \in Entities : MoveAssign(b, c)
    \/ \E d \in Entities, b \in Entities : MoveConstruct(d, b)
    \/ MoveFromSystem
    \/ MoveToSystem
    \/ \E types \in WrittenLists : WriteComponentTypes(types)
    \/ \E e \in Entities : Process(e)
    \/ ProcessSeqStart
    \/ ProcessSeqStep
    \/ ProcessSeqEnd

Spec == Init /\ [][Next]_vars

\* ------------------------------------------------------------- claims
\* The owning pointers, over all entities, that hold address a.
Owners(a) ==
    {p \in UNION {{<<e, n>> : n \in componentMap[e]} : e \in Entities} : p[2].ptr = a}

\* C1: a System can be made for any fixed list of required types (empty,
\* one, two or three of them), and its process(e) calls logic(e) exactly once
\* when e.contains(t) is true for every required type t, the empty list
\* included, and not at all when one is missing.
C1_AnyRequiredList ==
    \A params \in SystemParams :
        /\ is_base_of_all(params) = "true"
        /\ (lastOp.op = "process" /\ sys.params = params)
              => lastOp.calls =
                    IF \A i \in 1..Len(params) :
                          ContainsT(componentMap[lastOp.ent], params[i], 1)
                    THEN 1 ELSE 0

\* Supporting fact for C1: process(e) of each system that compiles calls
\* logic(e) once when e contains every type in the system's componentTypes
\* and not at all otherwise.
FilterCorrectForSystems ==
    [][(lastOp'.op = "process" /\ pc = "idle") =>
          lastOp'.calls =
             IF \A i \in 1..Len(sys.types) :
                   Contains(componentMap[lastOp'.ent], sys.types[i])
             THEN 1 ELSE 0]_vars

\* C2: contains<T>() is true and get<T>() is non-absent exactly when an
\* insertion of T (emplace<T> or insert<T>) has occurred that no erase<T>()
\* followed.
C2_PresentIffInserted ==
    \A e \in Entities, T \in Types, c \in 1..NumCopies :
        (ContainsT(componentMap[e], T, c) /\ GetT(componentMap[e], T, c) # Null)
            <=> inserted[e][T]

\* C3: an emplace<T> or insert<T>(B) on an entity that already holds T leaves
\* get<T>() returning the stored instance A, with its value unchanged, and
\* never B; no insertion changes the handle of a type already present.
C3_FirstWriterWins ==
    [][lastOp'.op \in {"emplace", "insert"} =>
          LET e == lastOp'.ent
              T == lastOp'.type
              A == GetT(componentMap[e], T, 1)
              A2 == GetT(componentMap'[e], T, 1)
          IN /\ lastOp'.hit = ContainsT(componentMap[e], T, 1)
             /\ lastOp'.hit
                   => /\ ContainsT(componentMap'[e], T, 1)
                      /\ A2 = A
                      /\ lastOp'.arg # Null => A2 # lastOp'.arg
                      /\ A # Null => heap'[A] = heap[A]
             /\ \A U \in Types :
                   ContainsT(componentMap[e], U, 1)
                      => GetT(componentMap'[e], U, 1) = GetT(componentMap[e], U, 1)]_vars

\* Supporting fact for C3: the same, for a B that is not the stored instance.
FirstWriterWinsDistinct ==
    [][lastOp'.op \in {"emplace", "insert"} =>
          LET e == lastOp'.ent
              T == lastOp'.type
              A == GetT(componentMap[e], T, 1)
              A2 == GetT(componentMap'[e], T, 1)
          IN /\ lastOp'.hit = ContainsT(componentMap[e], T, 1)
             /\ (lastOp'.hit /\ lastOp'.arg # A)
                   => /\ ContainsT(componentMap'[e], T, 1)
                      /\ A2 = A
                      /\ A2 # lastOp'.arg
                      /\ A # Null => heap'[A] = heap[A]
             /\ \A U \in Types :
                   ContainsT(componentMap[e], U, 1)
                      => GetT(componentMap'[e], U, 1) = GetT(componentMap[e], U, 1)]_vars

\* C4: process(sequence) passes every entity of the vector once, in order,
\* to process(entity), whatever the earlier entities did; logic runs on
\* entity i exactly when entity i contains every required type as it is reached.
C4_SequenceInOrder ==
    [][/\ (pc = "loop" /\ pc' = "loop")
          => visited' = Append(visited,
                 [ent |-> Len(visited) + 1,
                  calls |-> IF \A i \in 1..Len(sys.types) :
                                   Contains(componentMap[Len(visited) + 1], sys.types[i])
                            THEN 1 ELSE 0])
       /\ (pc = "loop" /\ pc' = "idle")
          => /\ Len(visited) = NumEntities
             /\ \A i \in 1..Len(visited) : visited[i].ent = i]_vars

\* The loop has reached end() after an entity that failed the filter was followed
\* by one that passed it.
C4_Witness ==
    /\ pc = "loop"
    /\ loopIdx > NumEntities
    /\ Len(visited) = NumEntities
    /\ visited[1].calls = 0
    /\ visited[2].calls = 1

\* C5: erase of a type the entity does not hold changes nothing; after any
\* erase the type is not contained and get is absent, a second erase would
\* leave the store as the first left it, and the components of every other
\* type are still stored, unchanged.
C5_EraseIdempotent ==
    [][lastOp'.op = "erase" =>
          LET e == lastOp'.ent
              T == lastOp'.type
          IN /\ ~lastOp'.hit => (componentMap' = componentMap /\ heap' = heap)
             /\ \A ti \in {t \in AnyTypeInfoPtr : t.type = T} :
                   /\ ~Contains(componentMap'[e], ti)
                   /\ Get(componentMap'[e], ti) = Null
                   /\ UnorderedErase(componentMap'[e], ti) = componentMap'[e]
             /\ componentMap'[e] \subseteq componentMap[e]
             /\ \A n \in componentMap[e] :
                   n.key.type # T
                      => /\ n \in componentMap'[e]
                         /\ n.ptr # Null => heap'[n.ptr] = heap[n.ptr]
             /\ \A f \in Entities \ {e} : componentMap'[f] = componentMap[f]]_vars

\* Supporting fact for C5: the same, with the entries of the other types
\* (type identity and handle) in place of the objects behind the handles.
EraseIdempotentOnStore ==
    [][lastOp'.op = "erase" =>
          LET e == lastOp'.ent
              T == lastOp'.type
          IN /\ ~lastOp'.hit => (componentMap' = componentMap /\ heap' = heap)
             /\ \A ti \in {t \in AnyTypeInfoPtr : t.type = T} :
                   /\ ~Contains(componentMap'[e], ti)
                   /\ Get(componentMap'[e], ti) = Null
                   /\ UnorderedErase(componentMap'[e], ti) = componentMap'[e]
             /\ componentMap'[e] \subseteq componentMap[e]
             /\ \A n \in componentMap[e] : n.key.type # T => n \in componentMap'[e]
             /\ \A f \in Entities \ {e} : componentMap'[f] = componentMap[f]]_vars

\* C6: process(e) and every step of process(sequence) leave every entity's
\* component set as it was; an entity that fails the filter is left exactly
\* as it was, components included; a component changes during process only
\* when logic() was called, and only on an entity that holds every type the
\* system requires, the fixed list of its template arguments.
C6_FilterReadOnly ==
    [][lastOp'.op = "process" =>
          /\ componentMap' = componentMap
          /\ lastOp'.calls = 0 => heap' = heap
          /\ heap' # heap =>
                /\ lastOp'.calls = 1
                /\ \A i \in 1..Len(sys.params) :
                      ContainsT(componentMap[lastOp'.ent], sys.params[i], 1)]_vars

\* Supporting fact for C6: the same, with the list the system's
\* componentTypes holds at the call in place of its template arguments.
FilterReadOnlyForComponentTypes ==
    [][lastOp'.op = "process" =>
          /\ componentMap' = componentMap
          /\ lastOp'.calls = 0 => heap' = heap
          /\ lastOp'.calls = 1 =>
                \A i \in 1..Len(sys.types) :
                   Contains(componentMap[lastOp'.ent], sys.types[i])]_vars

\* C7: the component get<T>() returns has real type T.
C7_RestoredTypeIsT ==
    \A e \in Entities, T \in Types, c \in 1..NumCopies :
        (GetT(componentMap[e], T, c) # Null /\ heap[GetT(componentMap[e], T, c)].st = "live")
            => heap[GetT(componentMap[e], T, c)].rtype = T

\* C8: an entity holds at most one component per type identity, and the
\* traversal yields one (type identity, handle) pair for each contained type,
\* none for an absent one, each handle being the one get returns.
C8_OnePerType ==
    \A e \in Entities :
        LET m == componentMap[e]
            yielded(T) == {n \in DOMAIN Traverse(m) : Traverse(m)[n][1].type = T}
        IN /\ IsFiniteSet(DOMAIN Traverse(m))
           /\ \A T \in Types :
                 /\ Cardinality({n \in m : n.key.type = T}) <= 1
                 /\ \A c \in 1..NumCopies :
                       Cardinality(yielded(T)) = IF ContainsT(m, T, c) THEN 1 ELSE 0
           /\ \A n \in DOMAIN Traverse(m) :
                 Traverse(m)[n][2] = Get(m, Traverse(m)[n][1])

\* An entity holding two components has turned a further emplace away.
C8_Witness ==
    /\ lastOp.op = "emplace"
    /\ lastOp.hit
    /\ Cardinality(componentMap[lastOp.ent]) = 2

\* C9: when process(e) has called logic(e), get(t) is non-absent for every
\* required type t.
C9_LogicGetsComponents ==
    (lastOp.op = "process" /\ lastOp.calls = 1)
        => \A i \in 1..Len(sys.types) :
              Get(componentMap[lastOp.ent], sys.types[i]) # Null

\* C10: every instance handed to an entity is held, live, by exactly one
\* owning pointer of one entity, or has been destroyed and is held nowhere.
C10_ExclusiveOwnership ==
    \A a \in Addrs :
        \/ heap[a].st = "free"
        \/ heap[a].st = "live" /\ Cardinality(Owners(a)) = 1
        \/ heap[a].st = "destroyed" /\ Owners(a) = {}

====
